---------------------------- MODULE Spec2Model ----------------------------
(***************************************************************************)
(* house-energy: the telemetry collector (datafetcher.py), the bounded     *)
(* task executor of the scrape scheduler (scraping_scheduler.py), the      *)
(* process supervisor (house_energy.py), the meter scraper (scraper.py)    *)
(* and the month list of the dashboard (app.py, available_months).         *)
(*                                                                         *)
(* Time is counted in whole seconds (every stored timestamp is             *)
(* datetime.now().replace(microsecond=0)).  A calendar day is DayLen       *)
(* seconds long.  Energy values are the meter's cumulative reading; the    *)
(* room temperatures and the solar / weather payloads are carried by no    *)
(* claim and are left out of the rows.                                     *)
(***************************************************************************)
EXTENDS Integers, Sequences, FiniteSets, TLC

\* ------------------------------------------------------------------ bounds
MaxCycles == 2            \* collector cycles explored
DayLen == 12              \* seconds of one calendar day in the model
\* Wall-clock second at which datafetcher.py starts: the second cycle falls
\* on the same day (13), on the next midnight (14) or on the next day (17).
StartTimes == {13, 14, 17}
ForwardEnergyValues == {40, 42}   \* cumulative readings the meter delivers

\* ------------------------------------------------------- program constants
Interval == 10            \* schedule.every(10).seconds

Sources == {"solax", "tuya", "weather"}

\* An optional value: <<>> is None / an unbound local, <<v>> is the value v.
None == <<>>
Some(v) == <<v>>

\* date.today() bound to a DateTime column: midnight of the current day.
Midnight(t) == (t \div DayLen) * DayLen
DayOf(t) == t \div DayLen

VARIABLES
    pc,             \* position of datafetcher.py
    now,            \* wall clock of the collector host
    next_run,       \* schedule's next_run of the save_all_data_to_db job
    cycles,         \* completed calls of save_all_data_to_db
    started,        \* capture time of the current (or last) cycle
    solax_to_db, tuya_to_db, weather_to_db,   \* locals of save_all_data_to_db
    SolaxData, TuyaData, WeatherData,         \* the tables, in id order
    sent,           \* telegram messages of the current cycle: <<source, text>>
    fetched,        \* outcome of each source client in the current cycle
    baseline_q,     \* outcome of the baseline query in the current cycle
    commit          \* outcome of each session.commit() in the current cycle

cvars == <<pc, now, next_run, cycles, started, solax_to_db, tuya_to_db,
           weather_to_db, SolaxData, TuyaData, WeatherData, sent, fetched,
           baseline_q, commit>>

\* scraping_scheduler.py
VARIABLES
    spc,            \* position of scraping_scheduler.py
    clock,          \* wall clock of the scheduler, in seconds
    update_time,    \* next attempt time of the __main__ loop
    runs,           \* calls of time_limit made so far
    worker,         \* the pool's worker process
    child,          \* the scraper.py subprocess of the current call
    orphans,        \* scraper.py subprocesses of earlier calls still running
    result,         \* the AsyncResult: None until the task has returned
    task_raised,    \* the task raised inside the worker
    timed_out,      \* result.get(timeout=600) raised TimeoutError
    tl_entry,       \* clock at which the current call applied the task
    tl_arg,         \* the update_time argument of the current call
    starts,         \* times the task was started by the current call
    finished_at,    \* clock at which the task returned, None if it has not
    tsent           \* telegram messages of the current or last call

svars == <<spc, clock, update_time, runs, worker, child, orphans, result,
           task_raised, timed_out, tl_entry, tl_arg, starts, finished_at,
           tsent>>

\* house_energy.py
VARIABLES
    hpc,                \* position of house_energy.py
    procs,              \* the host's process table: pid -> command line
    job,                \* the job in progress: "check", "stop" or "none"
    target,             \* the argument of stop_process in progress
    running_processes,  \* local of the job in progress
    idx,                \* position of the for loop over required_processes
    spawn_calls,        \* subprocess.Popen calls of the job: script, pid
    signals,            \* os.kill calls of the job: pid, delivered
    reports,            \* what the job printed or sent: <<text, subject>>
    changed,            \* the table changed under the job in progress
    jobs,               \* jobs registered with schedule
    reconnects          \* calls of connect_to_wifi

hvars == <<hpc, procs, job, target, running_processes, idx, spawn_calls,
           signals, reports, changed, jobs, reconnects>>

\* The wall clock of the supervisor's host, as the instants its schedule
\* names.
VARIABLES
    hclock

\* scraper.py
VARIABLES
    xpc,            \* position of scraper.py: "idle" between two runs
    meter,          \* the rows of my_power_meter, in id order
    date_today,          \* the date on the scraper's host, as a day number
    stdout,         \* what the current or last run printed
    logins          \* calls of login() in the current or last run

xvars == <<xpc, meter, date_today, stdout, logins>>

\* app.py: one call of available_months
VARIABLES
    apc,            \* position of the call: "while", "returned", "raised"
    start_month,    \* the arguments of the call
    start_year,
    start_time,     \* the locals
    current_month,
    dates_to_pick

mvars == <<apc, start_month, start_year, start_time, current_month,
           dates_to_pick>>

\* scraper.py of an earlier run of the scheduler
VARIABLES
    opc             \* its position, "none" when there is no such process

ovars == <<opc>>

\* raspberry_check.py
VARIABLES
    rpc,            \* position of raspberry_check.py: "loop" or "crashed"
    online_alert,   \* the module's global
    checks          \* the calls of check_site so far: finding, messages

rvars == <<rpc, online_alert, checks>>

\* What no action of the collector, the scheduler or the supervisor's jobs
\* touches.
evars == <<hclock, xvars, mvars, ovars, rvars>>

\* What raspberry_check.py does not touch.
rrest == <<cvars, svars, hvars, hclock, xvars, mvars, ovars>>

\* What no action of scraper.py touches.
xrest == <<cvars, svars, hvars, hclock, mvars, ovars, rvars>>

\* What the call of available_months does not touch.
mrest == <<cvars, svars, hvars, hclock, xvars, ovars, rvars>>

\* What a scraper.py left over from an earlier run does not touch, the
\* variables of scraper.py aside.
orest == <<cvars, svars, hvars, hclock, mvars, rvars>>

vars == <<cvars, svars, hvars, evars>>

NoOutcome == [s \in Sources |-> "none"]

\* electricity.db at start: empty, or holding the first row an earlier run
\* of the program stored on day 0 (a first row has a daily delta of 0).
InitialTuyaData ==
    {<<>>,
     <<[date |-> 5, forward_energy |-> 42, forward_energy_daily |-> <<0>>]>>}

\* ------------------------------------------------------------ session_scope
\* The body ran to its end and commit() returned (outcome "ok"), or the body
\* or commit() raised (outcome "error").  `pending` are the rows added to the
\* session.  The bare except rolls back, reports and swallows the error.
\* Variant: no rollback, the added rows stay in the table after the error.
session_scope_norollback(pending, outcome) ==
    IF outcome = "ok"
    THEN [rows |-> pending, msgs |-> <<>>, raised |-> FALSE]
    ELSE [rows |-> pending,
          msgs |-> <<"Error: Session scope failed">>,
          raised |-> FALSE]

session_scope(pending, outcome) ==
    IF outcome = "ok"
    THEN [rows |-> pending, msgs |-> <<>>, raised |-> FALSE]
    ELSE [rows |-> <<>>,
          msgs |-> <<"Error: Session scope failed">>,
          raised |-> FALSE]

\* --------------------------------------------------- the download functions
\* download_solax_data answering a bad status with a reading all the same.
download_solax_data_lastknown(outcome) ==
    CASE outcome = "ok"     -> [data |-> Some("solax"), msgs |-> <<>>, raised |-> FALSE]
      [] outcome = "status" -> [data |-> Some("solax"),
                                msgs |-> <<"Error: Could not retrieve data from Solax">>,
                                raised |-> FALSE]
      [] outcome = "raise"  -> [data |-> None, msgs |-> <<>>, raised |-> TRUE]

\* requests.get raised or the payload is malformed ("raise"), the status is
\* not 200 ("status"), or the reading is delivered ("ok").
download_solax_data(outcome) ==
    CASE outcome = "ok"     -> [data |-> Some("solax"), msgs |-> <<>>, raised |-> FALSE]
      [] outcome = "status" -> [data |-> None,
                                msgs |-> <<"Error: Could not retrieve data from Solax">>,
                                raised |-> FALSE]
      [] outcome = "raise"  -> [data |-> None, msgs |-> <<>>, raised |-> TRUE]

\* Every error is caught inside download_tuya_data ("fail").
download_tuya_data(outcome, total_energy) ==
    CASE outcome = "ok"   -> [data |-> Some(total_energy), msgs |-> <<>>, raised |-> FALSE]
      [] outcome = "fail" -> [data |-> None,
                              msgs |-> <<"Error: Could not retrive data from TUYA">>,
                              raised |-> FALSE]

download_weather_data(outcome) ==
    CASE outcome = "ok"     -> [data |-> Some("weather"), msgs |-> <<>>, raised |-> FALSE]
      [] outcome = "status" -> [data |-> None,
                                msgs |-> <<"Error: Could not retrieve data from Weather API">>,
                                raised |-> FALSE]
      [] outcome = "raise"  -> [data |-> None, msgs |-> <<>>, raised |-> TRUE]

\* ------------------------------------------- calculate_forward_energy_daily
\* .filter(TuyaData.date <= today).order_by(TuyaData.date.desc()).first()
FirstForwardEnergy(table, today) ==
    LET cand == {i \in DOMAIN table : table[i].date <= today}
    IN  IF cand = {} THEN None
        ELSE LET i == CHOOSE k \in cand :
                        \A j \in cand : table[j].date <= table[k].date
             IN  Some(table[i].forward_energy)

\* q is the outcome of the query: "ok", or "fail" when it raises.  A failed
\* query is swallowed by session_scope and leaves todays_first_forward_energy
\* unbound, so the `if` that reads it raises.
calculate_forward_energy_daily(row, table, t, q) ==
    LET scope == session_scope(<<>>, IF q = "ok" THEN "ok" ELSE "error")
        todays_first_forward_energy == FirstForwardEnergy(table, Midnight(t))
    IN  IF q # "ok"
        THEN [row |-> row, msgs |-> scope.msgs, raised |-> TRUE]
        ELSE IF todays_first_forward_energy # None
        THEN [row |-> [row EXCEPT !.forward_energy_daily =
                         Some(row.forward_energy - todays_first_forward_energy[1])],
              msgs |-> scope.msgs, raised |-> FALSE]
        ELSE [row |-> [row EXCEPT !.forward_energy_daily = Some(0)],
              msgs |-> scope.msgs, raised |-> FALSE]

\* --------------------------------------- the except clauses of save_all_...
\* Each try block of save_all_data_to_db has a bare except that reports and
\* does not re-raise.
\* Variant: the except clause is missing and the error leaves the job.
FetchExcept_reraise(text, raised) ==
    [msgs |-> <<>>, propagate |-> raised]

FetchExcept(text, raised) ==
    [msgs |-> IF raised THEN <<text>> ELSE <<>>, propagate |-> FALSE]

StoreExcept(text, raised) ==
    [msgs |-> IF raised THEN <<text>> ELSE <<>>, propagate |-> FALSE]

Tag(src, msgs) == [i \in DOMAIN msgs |-> <<src, msgs[i]>>]

\* ---------------------------------------------------------------- Init
\* The stamp of a row, were it the time of day alone.
Stamp_timeofday(t) == t % DayLen

\* date=datetime.now().replace(microsecond=0), in whole seconds.
Stamp(t) == t

InitCollector ==
    /\ pc = "solax_fetch"             \* schedule.run_all() at import
    /\ now \in StartTimes
    /\ started = now
    /\ next_run = now + Interval      \* schedule.every(10).seconds.do(...)
    /\ cycles = 0
    /\ solax_to_db = None /\ tuya_to_db = None /\ weather_to_db = None
    /\ SolaxData = <<>> /\ WeatherData = <<>>
    /\ TuyaData \in InitialTuyaData
    /\ sent = <<>>
    /\ fetched = NoOutcome
    /\ baseline_q = "none"
    /\ commit = NoOutcome

\* ------------------------------------------------- save_all_data_to_db
\* try: solax_data = download_solax_data(); if solax_data: solax_to_db = ...
SolaxFetch ==
    /\ pc = "solax_fetch"
    /\ UNCHANGED <<svars, hvars, evars>>
    /\ \E o \in {"ok", "status", "raise"} :
         LET d == download_solax_data(o)
             h == FetchExcept("Error: Could not download Solax data to database",
                              d.raised)
         IN  /\ fetched' = [fetched EXCEPT !["solax"] = o]
             /\ solax_to_db' = IF d.data # None THEN Some([date |-> Stamp(now)])
                               ELSE solax_to_db
             /\ sent' = sent \o Tag("solax", d.msgs \o h.msgs)
             /\ pc' = IF h.propagate THEN "crashed" ELSE "tuya_fetch"
    /\ UNCHANGED <<now, next_run, cycles, started, tuya_to_db, weather_to_db,
                   SolaxData, TuyaData, WeatherData, baseline_q, commit>>

\* try: tuya_data = download_tuya_data(); if tuya_data: tuya_to_db = TuyaData(...)
\*      tuya_to_db = calculate_forward_energy_daily(tuya_to_db)
TuyaFetch ==
    /\ pc = "tuya_fetch"
    /\ UNCHANGED <<svars, hvars, evars>>
    /\ \E o \in {"ok", "fail"}, e \in ForwardEnergyValues, q \in {"ok", "fail"} :
         LET d == download_tuya_data(o, e)
             row == [date |-> Stamp(now), forward_energy |-> e,
                     forward_energy_daily |-> None]
             c == calculate_forward_energy_daily(row, TuyaData, now, q)
             got == d.data # None
             raised == d.raised \/ (got /\ c.raised)
             h == FetchExcept("Error: Could not download Tuya data to database",
                              raised)
         IN  /\ (~got) => (e = CHOOSE x \in ForwardEnergyValues : TRUE) /\ q = "ok"
             /\ fetched' = [fetched EXCEPT !["tuya"] = o]
             /\ baseline_q' = IF got THEN q ELSE "none"
             /\ tuya_to_db' = IF got THEN Some(c.row) ELSE tuya_to_db
             /\ sent' = sent \o Tag("tuya", d.msgs \o
                                   (IF got THEN c.msgs ELSE <<>>) \o h.msgs)
             /\ pc' = IF h.propagate THEN "crashed" ELSE "weather_fetch"
    /\ UNCHANGED <<now, next_run, cycles, started, solax_to_db, weather_to_db,
                   SolaxData, TuyaData, WeatherData, commit>>

WeatherFetch ==
    /\ pc = "weather_fetch"
    /\ UNCHANGED <<svars, hvars, evars>>
    /\ \E o \in {"ok", "status", "raise"} :
         LET d == download_weather_data(o)
             h == FetchExcept("Error: Could not download Weather data to database",
                              d.raised)
         IN  /\ fetched' = [fetched EXCEPT !["weather"] = o]
             /\ weather_to_db' = IF d.data # None THEN Some([date |-> Stamp(now)])
                                 ELSE weather_to_db
             /\ sent' = sent \o Tag("weather", d.msgs \o h.msgs)
             /\ pc' = IF h.propagate THEN "crashed" ELSE "solax_store"
    /\ UNCHANGED <<now, next_run, cycles, started, solax_to_db, tuya_to_db,
                   SolaxData, TuyaData, WeatherData, baseline_q, commit>>

\* try: with session_scope() as session: session.add(x_to_db)
\* Reading an unbound x_to_db raises inside the with block; otherwise the
\* row is added and commit() succeeds or raises (co).
StoreStep(src, local, co, text) ==
    LET bound == local # None
        scope == session_scope(local, IF bound /\ co = "ok" THEN "ok" ELSE "error")
        h == StoreExcept(text, scope.raised)
    IN  [rows |-> scope.rows,
         msgs |-> Tag(src, scope.msgs \o h.msgs),
         outcome |-> IF bound THEN co ELSE "unbound",
         propagate |-> h.propagate]

SolaxStore ==
    /\ pc = "solax_store"
    /\ UNCHANGED <<svars, hvars, evars>>
    /\ \E co \in {"ok", "fail"} :
         LET r == StoreStep("solax", solax_to_db, co,
                              "Error: Could not save Solax data to database")
         IN  /\ (solax_to_db = None) => co = "fail"
             /\ SolaxData' = SolaxData \o r.rows
             /\ sent' = sent \o r.msgs
             /\ commit' = [commit EXCEPT !["solax"] = r.outcome]
             /\ pc' = IF r.propagate THEN "crashed" ELSE "tuya_store"
    /\ UNCHANGED <<now, next_run, cycles, started, solax_to_db, tuya_to_db,
                   weather_to_db, TuyaData, WeatherData, fetched, baseline_q>>

TuyaStore ==
    /\ pc = "tuya_store"
    /\ UNCHANGED <<svars, hvars, evars>>
    /\ \E co \in {"ok", "fail"} :
         LET r == StoreStep("tuya", tuya_to_db, co,
                              "Error: Could not save Tuya data to database")
         IN  /\ (tuya_to_db = None) => co = "fail"
             /\ TuyaData' = TuyaData \o r.rows
             /\ sent' = sent \o r.msgs
             /\ commit' = [commit EXCEPT !["tuya"] = r.outcome]
             /\ pc' = IF r.propagate THEN "crashed" ELSE "weather_store"
    /\ UNCHANGED <<now, next_run, cycles, started, solax_to_db, tuya_to_db,
                   weather_to_db, SolaxData, WeatherData, fetched, baseline_q>>

WeatherStore ==
    /\ pc = "weather_store"
    /\ UNCHANGED <<svars, hvars, evars>>
    /\ \E co \in {"ok", "fail"} :
         LET r == StoreStep("weather", weather_to_db, co,
                              "Error: Could not save Weather data to database")
         IN  /\ (weather_to_db = None) => co = "fail"
             /\ WeatherData' = WeatherData \o r.rows
             /\ sent' = sent \o r.msgs
             /\ commit' = [commit EXCEPT !["weather"] = r.outcome]
             /\ pc' = IF r.propagate THEN "crashed" ELSE "returned"
    /\ UNCHANGED <<now, next_run, cycles, started, solax_to_db, tuya_to_db,
                   weather_to_db, SolaxData, TuyaData, fetched, baseline_q>>

\* save_all_data_to_db returns: its locals are gone and schedule sets
\* next_run = now + interval.  The first call is schedule.run_all() at
\* import, which is followed by the loop's run_pending(); later calls are
\* made by run_pending(), which is followed by time.sleep(1).
JobReturn ==
    /\ pc = "returned"
    /\ UNCHANGED <<svars, hvars, evars>>
    /\ cycles' = cycles + 1
    /\ next_run' = now + Interval
    /\ solax_to_db' = None /\ tuya_to_db' = None /\ weather_to_db' = None
    /\ sent' = <<>>
    /\ fetched' = NoOutcome
    /\ baseline_q' = "none"
    /\ commit' = NoOutcome
    /\ pc' = IF cycles = 0 THEN "run_pending" ELSE "sleep"
    /\ UNCHANGED <<now, started, SolaxData, TuyaData, WeatherData>>

\* ------------------------------------------------------ the __main__ loop
\* schedule.run_pending(): the job is called when it is due.
RunPending ==
    /\ pc = "run_pending"
    /\ UNCHANGED <<svars, hvars, evars>>
    /\ IF now >= next_run
       THEN /\ cycles < MaxCycles
            /\ pc' = "solax_fetch"
            /\ started' = now
       ELSE /\ pc' = "sleep"
            /\ UNCHANGED started
    /\ UNCHANGED <<now, next_run, cycles, solax_to_db, tuya_to_db,
                   weather_to_db, SolaxData, TuyaData, WeatherData, sent,
                   fetched, baseline_q, commit>>

\* time.sleep(1)
Sleep ==
    /\ pc = "sleep"
    /\ UNCHANGED <<svars, hvars, evars>>
    /\ now' = now + 1
    /\ pc' = "run_pending"
    /\ UNCHANGED <<next_run, cycles, started, solax_to_db, tuya_to_db,
                   weather_to_db, SolaxData, TuyaData, WeatherData, sent,
                   fetched, baseline_q, commit>>

\* ================================================= scraping_scheduler.py
MaxRuns == 2              \* calls of time_limit explored
StartClocks == {36000, 46800}   \* the scheduler starts at 10:00 or at 13:00
TaskSeconds == {30, 599}  \* running times of a scrape that ends in time

Timeout == 600            \* result.get(timeout=600)
Hour == 3600              \* timedelta(hours=1)
Day == 86400              \* timedelta(days=1)
Noon == 43200             \* replace(hour=12, minute=0, second=0)

\* What scraper.py prints, as words: nothing, one of its two success lines,
\* or anything else (a traceback goes to stderr and leaves stdout empty).
Outputs == {<<>>, <<"Success,", "data", "is", "actual.">>,
            <<"Success,", "downloaded", "and", "saved", "data.">>,
            <<"Can't", "log", "in">>}

\* "Success" in str(output)
HasSuccess(output) ==
    \E i \in DOMAIN output : output[i] \in {"Success", "Success,"}

\* Variants of change_update_time with one slip each: "next_hour" adding a
\* day, "next_day" without the replace(hour=12, ...), "next_hour" without
\* its message.
change_update_time_dayforhour(mode, t) ==
    CASE mode = "next_day" ->
           LET u == ((t + Day) \div Day) * Day + Noon
           IN  [time |-> u, msgs |-> << <<"Next update time", u>> >>]
      [] mode = "next_hour" ->
           LET u == t + Day
           IN  [time |-> u, msgs |-> << <<"Next update try time", u>> >>]
      [] OTHER -> [time |-> t, msgs |-> <<>>]

change_update_time_noreplace(mode, t) ==
    CASE mode = "next_day" ->
           LET u == t + Day
           IN  [time |-> u, msgs |-> << <<"Next update time", u>> >>]
      [] mode = "next_hour" ->
           LET u == t + Hour
           IN  [time |-> u, msgs |-> << <<"Next update try time", u>> >>]
      [] OTHER -> [time |-> t, msgs |-> <<>>]

change_update_time_silent(mode, t) ==
    CASE mode = "next_day" ->
           LET u == ((t + Day) \div Day) * Day + Noon
           IN  [time |-> u, msgs |-> << <<"Next update time", u>> >>]
      [] mode = "next_hour" ->
           LET u == t + Hour
           IN  [time |-> u, msgs |-> <<>>]
      [] OTHER -> [time |-> t, msgs |-> <<>>]

\* change_update_time whose "next_hour" adds nothing.
change_update_time_nohour(mode, t) ==
    CASE mode = "next_day" ->
           LET u == ((t + Day) \div Day) * Day + Noon
           IN  [time |-> u, msgs |-> << <<"Next update time", u>> >>]
      [] mode = "next_hour" ->
           [time |-> t, msgs |-> << <<"Next update try time", t>> >>]
      [] OTHER -> [time |-> t, msgs |-> <<>>]

\* change_update_time(mode, update_time); seconds are whole, so
\* replace(microsecond=0) changes nothing.
change_update_time(mode, t) ==
    CASE mode = "next_day" ->
           LET u == ((t + Day) \div Day) * Day + Noon
           IN  [time |-> u, msgs |-> << <<"Next update time", u>> >>]
      [] mode = "next_hour" ->
           LET u == t + Hour
           IN  [time |-> u, msgs |-> << <<"Next update try time", u>> >>]
      [] OTHER -> [time |-> t, msgs |-> <<>>]

\* run_scraper once scraper.py has exited with `output`, at time t.
run_scraper(output, t) ==
    LET said == IF output # <<>> THEN << <<"output", output>> >> ELSE <<>>
    IN  IF HasSuccess(output)
        THEN LET c == change_update_time("next_day", t)
             IN  [time |-> c.time, msgs |-> said \o c.msgs]
        ELSE LET c == change_update_time("next_hour", t)
             IN  [time |-> c.time,
                  msgs |-> said \o c.msgs \o << <<"Error occurred">> >>]

\* The first update time for a start at t, were it the next noon.
FirstUpdateTime_noon(t) ==
    IF t % Day < Noon THEN (t \div Day) * Day + Noon
    ELSE (t \div Day + 1) * Day + Noon

\* update_time = datetime.now(): the first update time for a start at t.
FirstUpdateTime(t) == t

InitScheduler ==
    /\ spc = "check"
    /\ clock \in StartClocks
    /\ update_time = FirstUpdateTime(clock)
    /\ runs = 0
    /\ worker = "none"
    /\ child = "none"
    /\ orphans = 0
    /\ result = None
    /\ task_raised = FALSE
    /\ timed_out = FALSE
    /\ tl_entry = 0
    /\ tl_arg = 0
    /\ starts = 0
    /\ finished_at = None
    /\ tsent = <<>>

\* if update_time < now, with the less-or-equal slip for comparison.
IsDue_orequal(u, n) == u <= n

IsDue(u, n) == u < n

\* while True: now = datetime.now(); if update_time < now: time_limit(...)
\* time_limit: pool = Pool(processes=1); result = pool.apply_async(function);
\* pool.close(); the worker takes the task.
Check ==
    /\ spc = "check"
    /\ UNCHANGED <<cvars, hvars, evars>>
    /\ IF IsDue(update_time, clock)
       THEN /\ runs < MaxRuns
            /\ runs' = runs + 1
            /\ spc' = "get"
            /\ worker' = "running"
            /\ starts' = 1
            /\ tl_entry' = clock
            /\ tl_arg' = update_time
            /\ tsent' = <<>>
       ELSE /\ spc' = "sleep"
            /\ UNCHANGED <<runs, worker, starts, tl_entry, tl_arg, tsent>>
    /\ UNCHANGED <<clock, update_time, child, orphans, result, task_raised,
                   timed_out, finished_at>>

\* The worker, in run_scraper: subprocess.run(["python", "scraper.py"])
\* starts the scraper, or raises (OSError) without starting it.
WorkerSpawn ==
    /\ spc \in {"get", "terminate"}
    /\ worker = "running" /\ child = "none"
    /\ UNCHANGED <<cvars, hvars, evars>>
    /\ \E ok \in BOOLEAN :
         IF ok THEN /\ child' = "running"
                    /\ UNCHANGED <<worker, task_raised>>
         ELSE /\ task_raised' = TRUE
              /\ worker' = "idle"
              /\ UNCHANGED child
    /\ UNCHANGED <<spc, clock, update_time, runs, orphans, result, timed_out,
                   tl_entry, tl_arg, starts, finished_at, tsent>>

\* scraper.py exits after d seconds and run_scraper goes on to its end: it
\* returns the new update time, or raises (decode of the captured bytes).
Finish(d) ==
    /\ worker = "running" /\ child = "running"
    /\ clock' = clock + d
    /\ child' = "exited"
    /\ worker' = "idle"
    /\ \E output \in Outputs, ok \in BOOLEAN :
         LET r == run_scraper(output, clock + d)
         IN  IF ok
             THEN /\ result' = Some(r.time)
                  /\ finished_at' = Some(clock + d)
                  /\ tsent' = tsent \o r.msgs
                  /\ UNCHANGED task_raised
             ELSE /\ output = <<>>
                  /\ task_raised' = TRUE
                  /\ UNCHANGED <<result, finished_at, tsent>>
    /\ UNCHANGED <<spc, update_time, runs, orphans, timed_out, tl_entry,
                   tl_arg, starts>>

\* The task ends before the ceiling, while time_limit waits in result.get.
TaskFinishes ==
    /\ spc = "get"
    /\ UNCHANGED <<cvars, hvars, evars>>
    /\ \E d \in TaskSeconds : clock + d < tl_entry + Timeout /\ Finish(d)

\* The task ends after result.get has timed out and before pool.terminate()
\* has killed the worker.
TaskFinishesLate ==
    /\ spc = "terminate"
    /\ UNCHANGED <<cvars, hvars, evars>>
    /\ Finish(0)

\* result.get(timeout=600) returns the value; pool.join() waits for the
\* worker, which exits because the pool is closed.
GetReturns ==
    /\ spc = "get"
    /\ result # None
    /\ UNCHANGED <<cvars, hvars, evars>>
    /\ worker' = "exited"
    /\ spc' = "ready"
    /\ UNCHANGED <<clock, update_time, runs, child, orphans, result,
                   task_raised, timed_out, tl_entry, tl_arg, starts,
                   finished_at, tsent>>

\* result.get(timeout=600) re-raises what the task raised: it is no
\* TimeoutError, so it leaves time_limit and the __main__ loop.
GetRaises ==
    /\ spc = "get"
    /\ task_raised
    /\ UNCHANGED <<cvars, hvars, evars>>
    /\ spc' = "dead"
    /\ worker' = "terminated"
    /\ UNCHANGED <<clock, update_time, runs, child, orphans, result,
                   task_raised, timed_out, tl_entry, tl_arg, starts,
                   finished_at, tsent>>

\* result.get(timeout=600) raises TimeoutError: the task has not ended.
GetTimeout ==
    /\ spc = "get"
    /\ result = None /\ ~task_raised
    /\ UNCHANGED <<cvars, hvars, evars>>
    /\ clock' = tl_entry + Timeout
    /\ timed_out' = TRUE
    /\ spc' = "terminate"
    /\ UNCHANGED <<update_time, runs, worker, child, orphans, result,
                   task_raised, tl_entry, tl_arg, starts, finished_at, tsent>>

\* except TimeoutError: pool.terminate(); pool.join().  terminate() signals
\* the pool's worker process only; a scraper.py the worker started is a
\* process of its own and receives nothing.
Terminate ==
    /\ spc = "terminate"
    /\ UNCHANGED <<cvars, hvars, evars>>
    /\ worker' = "terminated"
    /\ spc' = "ready"
    /\ UNCHANGED <<clock, update_time, runs, child, orphans, result,
                   task_raised, timed_out, tl_entry, tl_arg, starts,
                   finished_at, tsent>>

\* if result.ready(): update_time = result.get()
\* else: send "Timeout occurred"; change_update_time("next_hour", update_time)
Ready ==
    /\ spc = "ready"
    /\ UNCHANGED <<cvars, hvars, evars>>
    /\ IF result # None
       THEN /\ update_time' = result[1]
            /\ spc' = "returned"
            /\ UNCHANGED tsent
       ELSE IF task_raised
       THEN /\ spc' = "dead"
            /\ UNCHANGED <<update_time, tsent>>
       ELSE LET c == change_update_time("next_hour", tl_arg)
            IN  /\ update_time' = c.time
                /\ tsent' = tsent \o << <<"Timeout occurred">> >> \o c.msgs
                /\ spc' = "returned"
    /\ UNCHANGED <<clock, runs, worker, child, orphans, result, task_raised,
                   timed_out, tl_entry, tl_arg, starts, finished_at>>

\* time_limit has returned to the loop; what the call left running stays,
\* and the messages of the call stay on record until the next call starts.
Return ==
    /\ spc = "returned"
    /\ UNCHANGED <<cvars, hvars, evars>>
    /\ spc' = "sleep"
    /\ orphans' = IF child = "running" THEN orphans + 1 ELSE orphans
    /\ child' = "none"
    /\ worker' = "none"
    /\ result' = None
    /\ task_raised' = FALSE
    /\ timed_out' = FALSE
    /\ starts' = 0
    /\ finished_at' = None
    /\ tl_entry' = 0
    /\ tl_arg' = 0
    /\ UNCHANGED <<clock, update_time, runs, tsent>>

\* A scraper.py whose worker was killed ends by itself at some later time.
OrphanExits ==
    /\ UNCHANGED <<cvars, hvars, evars>>
    /\ \/ /\ child = "running" /\ worker = "terminated"
          /\ child' = "exited"
          /\ UNCHANGED orphans
       \/ /\ orphans > 0
          /\ orphans' = orphans - 1
          /\ UNCHANGED child
    /\ UNCHANGED <<spc, clock, update_time, runs, worker, result, task_raised,
                   timed_out, tl_entry, tl_arg, starts, finished_at, tsent>>

\* time.sleep(1).  Iterations of the loop that find update_time < now false
\* change nothing, so a run of them is taken as one step: while the update
\* time lies ahead the clock moves to the last second at which the test is
\* still false or to the first second at which it is true; otherwise it
\* moves by one second.
SleepTargets ==
    IF update_time > clock THEN {update_time, update_time + 1} ELSE {clock + 1}

SchedulerSleep ==
    /\ spc = "sleep"
    /\ UNCHANGED <<cvars, hvars, evars>>
    /\ clock' \in SleepTargets
    /\ spc' = "check"
    /\ UNCHANGED <<update_time, runs, worker, child, orphans, result,
                   task_raised, timed_out, tl_entry, tl_arg, starts,
                   finished_at, tsent>>

NextScheduler ==
    \/ Check \/ WorkerSpawn \/ TaskFinishes \/ TaskFinishesLate
    \/ GetReturns \/ GetRaises \/ GetTimeout \/ Terminate \/ Ready
    \/ Return \/ OrphanExits \/ SchedulerSleep

\* ------------------------------------------------------- house_energy.py
MaxProcs == 3             \* entries of the process table

Pids == 1..MaxProcs

\* required_processes of check_and_run_processes, in its order.
required_processes == <<"app.py", "datafetcher.py", "scraping_scheduler.py">>

Required == {required_processes[i] : i \in DOMAIN required_processes}

\* Command lines that come to life without the supervisor: the dashboard
\* started by hand, with or without an interpreter option, an editor opened
\* on the dashboard's file, the tunnel.
ExternalCmds == {<<"python", "app.py">>, <<"python", "-u", "app.py">>,
                 <<"nano", "app.py">>, <<"ngrok", "http", "8050">>}

\* stop_process is registered for the dashboard.
StopNames == {"app.py"}

\* The live processes of a table, and its free entries.
LivePids(table) == {p \in Pids : table[p] # None}

FreePids(table) == {p \in Pids : table[p] = None}

\* process.info["name"]: the command, the first word of the command line.
ProcName(cmdline) == cmdline[1]

\* word in name.lower(), for the names of the model, which are whole words.
NameHas(word, name) == name = word

\* token in cmdline: membership in the argument list.
InCmdline(token, cmdline) == \E i \in DOMAIN cmdline : cmdline[i] = token

\* ngrok_running with its `return True` outside the test.
ngrok_running_anyprocess(table) == LivePids(table) # {}

\* ngrok_running(): some process has "ngrok" in its name.
ngrok_running(table) ==
    \E p \in LivePids(table) : NameHas("ngrok", ProcName(table[p]))

\* check_running_python_processes reading cmdline[0] for the script name.
check_running_python_processes_argv0(table) ==
    {table[p][1] : p \in {q \in LivePids(table) :
                              NameHas("python", ProcName(table[q]))}}

\* check_running_python_processes(): for each process with "python" in its
\* name, cmdline[1] (the second word) or "Unknown".  The list is asked for
\* membership only and is kept as a set.
check_running_python_processes(table) ==
    {IF Len(table[p]) >= 2 THEN table[p][2] ELSE "Unknown" :
        p \in {q \in LivePids(table) :
                   NameHas("python", ProcName(table[q]))}}

\* The pids in table order (psutil yields them ascending), as a sequence.
RECURSIVE InOrder(_)
InOrder(S) ==
    IF S = {} THEN <<>>
    ELSE LET m == CHOOSE x \in S : \A y \in S : x <= y
         IN  <<m>> \o InOrder(S \ {m})

\* The second scan of stop_process without its `break`.
stop_process_matches_nobreak(table, process) ==
    InOrder({p \in LivePids(table) : InCmdline(process, table[p])})

\* The second scan of stop_process: the pids it signals, which is the first
\* process whose cmdline holds the token, then `break`.
stop_process_matches(table, process) ==
    LET all == InOrder({p \in LivePids(table) : InCmdline(process, table[p])})
    IN  IF all = <<>> THEN <<>> ELSE <<all[1]>>

\* Nothing registered, no job in progress, an empty table.
SupervisorFresh ==
    /\ hclock = "start"
    /\ procs = [p \in Pids |-> None]
    /\ job = "none"
    /\ target = ""
    /\ running_processes = {}
    /\ idx = 0
    /\ spawn_calls = <<>>
    /\ signals = <<>>
    /\ reports = <<>>
    /\ changed = FALSE
    /\ jobs = {}
    /\ reconnects = 0

\* house_energy.py at its first module-level statement.
SupervisorAtStart == hpc = "l177" /\ SupervisorFresh

InJob == job # "none"

\* A process ends, by itself or by a signal it received.
ProcExits ==
    /\ UNCHANGED <<cvars, svars, evars>>
    /\ \E p \in LivePids(procs) : procs' = [procs EXCEPT ![p] = None]
    /\ changed' = InJob
    /\ UNCHANGED <<hpc, job, target, running_processes, idx, spawn_calls,
                   signals, reports, jobs, reconnects>>

\* A process is started from outside the supervisor; it gets any free pid.
\* A job lasts an instant next to the pace at which processes are started
\* by hand, so these starts fall between jobs; exits hit a job anywhere.
ProcStarts ==
    /\ UNCHANGED <<cvars, svars, evars>>
    /\ ~InJob
    /\ \E p \in FreePids(procs), c \in ExternalCmds :
         procs' = [procs EXCEPT ![p] = c]
    /\ changed' = InJob
    /\ UNCHANGED <<hpc, job, target, running_processes, idx, spawn_calls,
                   signals, reports, jobs, reconnects>>

\* check_and_run_processes, lines 126-128: the one scan of the call.
CheckStart ==
    /\ hpc = "idle"
    /\ UNCHANGED <<cvars, svars, evars>>
    /\ hpc' = "spawning"
    /\ job' = "check"
    /\ running_processes' = check_running_python_processes(procs)
    /\ idx' = 1
    /\ UNCHANGED <<procs, target, spawn_calls, signals, reports, changed,
                   jobs, reconnects>>

\* The handler of Popen's exception, were there none: the exception leaves
\* check_and_run_processes and the loop that called it.
PopenExcept_none(process) == [reports |-> <<>>, propagate |-> TRUE]

\* except Exception as e: print and send "Error starting ...".
PopenExcept(process) ==
    [reports |-> << <<"Error starting", process>> >>, propagate |-> FALSE]

\* One turn of `for process in required_processes`: Popen for a script that
\* is not in running_processes; Popen starts the process or raises.
CheckNext ==
    /\ hpc = "spawning"
    /\ UNCHANGED <<cvars, svars, evars>>
    /\ LET process == required_processes[idx]
       IN  IF process \notin running_processes
           THEN \/ \E p \in FreePids(procs) :
                     /\ procs' = [procs EXCEPT ![p] = <<"python", process>>]
                     /\ spawn_calls' = Append(spawn_calls,
                                          [script |-> process, pid |-> p])
                     /\ reports' = Append(reports,
                                          <<"has been started.", process>>)
                \/ /\ spawn_calls' = Append(spawn_calls,
                                          [script |-> process, pid |-> 0])
                   /\ reports' = reports \o PopenExcept(process).reports
                   /\ UNCHANGED procs
           ELSE UNCHANGED <<procs, spawn_calls, reports>>
    /\ IF /\ required_processes[idx] \notin running_processes
          /\ spawn_calls'[Len(spawn_calls')].pid = 0
          /\ PopenExcept(required_processes[idx]).propagate
       THEN hpc' = "crashed" /\ UNCHANGED idx
       ELSE IF idx < Len(required_processes)
       THEN idx' = idx + 1 /\ UNCHANGED hpc
       ELSE idx' = 0 /\ hpc' = "ngrok"
    /\ UNCHANGED <<job, target, running_processes, signals, changed, jobs,
                   reconnects>>

\* if not ngrok_running(): print and send the error.
CheckNgrok ==
    /\ hpc = "ngrok"
    /\ UNCHANGED <<cvars, svars, evars>>
    /\ reports' = IF ngrok_running(procs) THEN reports
                  ELSE Append(reports, <<"Error, Ngrok isn't running", "">>)
    /\ hpc' = "done"
    /\ UNCHANGED <<procs, job, target, running_processes, idx, spawn_calls,
                   signals, changed, jobs, reconnects>>

\* stop_process(process), lines 159-161 and 173-174: the first scan and the
\* test on it.
StopStart ==
    /\ hpc = "idle"
    /\ UNCHANGED <<cvars, svars, evars>>
    /\ \E process \in StopNames :
         LET found == check_running_python_processes(procs)
         IN  /\ target' = process
             /\ running_processes' = found
             /\ IF process \in found
                THEN hpc' = "killing" /\ UNCHANGED reports
                ELSE /\ hpc' = "done"
                     /\ reports' = << <<"is not running.", process>> >>
    /\ job' = "stop"
    /\ UNCHANGED <<procs, idx, spawn_calls, signals, changed, jobs,
                   reconnects>>

\* Lines 162-172: the second scan; os.kill on the match delivers SIGTERM or
\* raises (the process is another user's), and finding no match says
\* nothing.
StopKill ==
    /\ hpc = "killing"
    /\ UNCHANGED <<cvars, svars, evars>>
    /\ LET pids == stop_process_matches(procs, target)
       IN  IF pids = <<>>
           THEN UNCHANGED <<signals, reports>>
           ELSE \/ /\ signals' = [i \in DOMAIN pids |->
                                    [pid |-> pids[i], delivered |-> TRUE]]
                   /\ reports' = [i \in DOMAIN pids |->
                                    <<"has been stopped.", target>>]
                \/ /\ signals' = << [pid |-> pids[1], delivered |-> FALSE] >>
                   /\ reports' = << <<"Error stopping", target>> >>
    /\ hpc' = "done"
    /\ UNCHANGED <<procs, job, target, running_processes, idx, spawn_calls,
                   changed, jobs, reconnects>>

\* The job returns to schedule; its locals and its record go.
JobEnd ==
    /\ hpc = "done"
    /\ UNCHANGED <<cvars, svars, evars>>
    /\ hpc' = "idle"
    /\ job' = "none"
    /\ target' = ""
    /\ running_processes' = {}
    /\ idx' = 0
    /\ spawn_calls' = <<>>
    /\ signals' = <<>>
    /\ reports' = <<>>
    /\ changed' = FALSE
    /\ UNCHANGED <<procs, jobs, reconnects>>

\* Line 177: schedule.every(5).seconds.do(check_and_run_processes).
Register177 ==
    /\ hpc = "l177"
    /\ UNCHANGED <<cvars, svars, evars>>
    /\ jobs' = jobs \cup {"check_and_run_processes"}
    /\ hpc' = "l178"
    /\ UNCHANGED <<procs, job, target, running_processes, idx, spawn_calls,
                   signals, reports, changed, reconnects>>

\* Line 178, the argument: check_wifi_connection() is called on the spot;
\* one ping, and connect_to_wifi when it fails.  It returns None.
CheckWifiAtImport ==
    /\ hpc = "l178"
    /\ UNCHANGED <<cvars, svars, evars>>
    /\ \E is_connected \in BOOLEAN :
         reconnects' = IF is_connected THEN reconnects ELSE reconnects + 1
    /\ hpc' = "l178_do"
    /\ UNCHANGED <<procs, job, target, running_processes, idx, spawn_calls,
                   signals, reports, changed, jobs>>

\* Line 178, the call: schedule.every(5).minutes.do(None).  do() builds
\* functools.partial(None), which raises TypeError; nothing catches it, so
\* the interpreter ends before lines 179-186.
RegisterWifiJob ==
    /\ hpc = "l178_do"
    /\ UNCHANGED <<cvars, svars, evars>>
    /\ hpc' = "crashed"
    /\ UNCHANGED <<procs, job, target, running_processes, idx, spawn_calls,
                   signals, reports, changed, jobs, reconnects>>

\* The two jobs of the supervisor, called on the table as it stands, with
\* the table changing under them.
NextSupervisorJobs ==
    \/ CheckStart \/ CheckNext \/ CheckNgrok
    \/ StopStart \/ StopKill \/ JobEnd
    \/ ProcExits \/ ProcStarts

\* The two jobs on a host where nothing but the supervisor starts a process:
\* what is live was launched by check_and_run_processes, and ends when it
\* ends.
NextSupervised ==
    \/ CheckStart \/ CheckNext \/ CheckNgrok
    \/ StopStart \/ StopKill \/ JobEnd
    \/ ProcExits

\* house_energy.py as a program, from its first module-level statement.
ImportStep == Register177 \/ CheckWifiAtImport \/ RegisterWifiJob

\* The instants at which the docstring has a job run, in the order in which
\* a supervisor started on a Sunday meets them.
Instants == <<"start", "monday 00:00", "00:05">>

\* Time passes to the next of these instants.
TimePasses ==
    /\ UNCHANGED <<cvars, svars, hvars, xvars, mvars, ovars, rvars>>
    /\ \E i \in 1..(Len(Instants) - 1) :
         hclock = Instants[i] /\ hclock' = Instants[i + 1]

NextHouseEnergy == ImportStep \/ ProcExits \/ ProcStarts \/ TimePasses

\* --------------------------------------------------------------- scraper.py
YearLen == 3              \* days of one calendar year in the model

MaxDay == YearLen + 1     \* last day the clock of scraper.py reaches

\* Cumulative meter readings the provider's page shows: <<taken, given>>.
Readings == {<<10, 5>>, <<12, 6>>}

\* date.strftime("%j"): the day of the year, 1 on January 1st.
DayOfYear(d) == (d % YearLen) + 1

\* my_power_meter at the first run: empty (a fresh database), or holding
\* the row of day 0.
InitialMeter ==
    {<<>>,
     <<[date |-> 0, taken |-> 8, given |-> 4,
        taken_daily |-> None, given_daily |-> None]>>}

\* What scraper.py prints on its two successful paths.
SaidActual == <<"Success,", "data", "is", "actual.">>

SaidSaved == <<"Success,", "downloaded", "and", "saved", "data.">>

\* is_data_actual answering False whatever the table holds.
is_data_actual_never(table, date) == FALSE

\* is_data_actual(): the day of the year of the last row (by id) against the
\* day of the year of today.  The table is not empty.
is_data_actual(table, date) ==
    DayOfYear(table[Len(table)].date) = DayOfYear(date)

\* save_data writing the new readings into the last row as well.
save_data_overwrite(table, date, taken, given) ==
    LET n == Len(table)
        last_row == table[n]
    IN  Append([table EXCEPT ![n] = [last_row EXCEPT
                                        !.taken = taken, !.given = given,
                                        !.taken_daily = Some(taken - last_row.taken),
                                        !.given_daily = Some(given - last_row.given)]],
               [date |-> date, taken |-> taken, given |-> given,
                taken_daily |-> None, given_daily |-> None])

\* save_data() up to its commit: the daily differences go onto the last
\* row, the new row is added with its own differences unset.
save_data(table, date, taken, given) ==
    LET n == Len(table)
        last_row == table[n]
    IN  Append([table EXCEPT ![n] = [last_row EXCEPT
                                        !.taken_daily = Some(taken - last_row.taken),
                                        !.given_daily = Some(given - last_row.given)]],
               [date |-> date, taken |-> taken, given |-> given,
                taken_daily |-> None, given_daily |-> None])

\* scraper.py not started, over an empty table.
ScraperAtStart ==
    /\ xpc = "idle"
    /\ opc = "none"
    /\ meter = <<>>
    /\ date_today = 0
    /\ stdout = <<>>
    /\ logins = 0

\* Midnight passes.
DayPasses ==
    /\ date_today < MaxDay
    /\ date_today' = date_today + 1
    /\ UNCHANGED <<xpc, meter, stdout, logins>>
    /\ UNCHANGED xrest

\* python scraper.py: a new process, with nothing printed yet.
ScraperStart ==
    /\ xpc = "idle"
    /\ xpc' = "start"
    /\ stdout' = <<>>
    /\ logins' = 0
    /\ UNCHANGED <<meter, date_today>>
    /\ UNCHANGED xrest

\* if is_data_actual(): print "... Success, data is actual."  On an empty
\* table last_row is None and last_row.date raises; the traceback goes to
\* stderr and the process ends.
IsDataActual ==
    /\ xpc = "start"
    /\ IF meter = <<>>
       THEN xpc' = "idle" /\ UNCHANGED stdout
       ELSE IF is_data_actual(meter, date_today)
       THEN xpc' = "idle" /\ stdout' = SaidActual
       ELSE xpc' = "login" /\ UNCHANGED stdout
    /\ UNCHANGED <<meter, date_today, logins>>
    /\ UNCHANGED xrest

\* else: the browser is opened and login() is called.  It returns True, or
\* its except clause runs: captcha is the list find_elements returns, so
\* captcha.get_attribute raises and the process ends before `return False`.
Login ==
    /\ xpc = "login"
    /\ logins' = logins + 1
    /\ \E ok \in BOOLEAN : xpc' = IF ok THEN "save" ELSE "idle"
    /\ UNCHANGED <<meter, date_today, stdout>>
    /\ UNCHANGED xrest

\* if login(): save_data(); close_program().  download_data or the commit
\* may raise: nothing is stored and nothing printed.
SaveData ==
    /\ xpc = "save"
    /\ xpc' = "idle"
    /\ \/ \E r \in Readings :
            /\ meter' = save_data(meter, date_today, r[1], r[2])
            /\ stdout' = SaidSaved
       \/ UNCHANGED <<meter, stdout>>
    /\ UNCHANGED <<date_today, logins>>
    /\ UNCHANGED xrest

NextScraper ==
    \/ DayPasses \/ ScraperStart \/ IsDataActual \/ Login \/ SaveData

\* scraping_scheduler.py, time_limit: the run is 600 seconds old and
\* scraper.py is still in the browser.  pool.terminate() ends the worker;
\* scraper.py goes on by itself, and the scheduler is free to start the
\* next run.
RunTimesOut ==
    /\ xpc \in {"login", "save"}
    /\ opc = "none"
    /\ opc' = xpc
    /\ xpc' = "idle"
    /\ UNCHANGED <<meter, date_today, stdout, logins>>
    /\ UNCHANGED orest

\* login() in the process left over.
LeftOverLogin ==
    /\ opc = "login"
    /\ \E ok \in BOOLEAN : opc' = IF ok THEN "save" ELSE "none"
    /\ UNCHANGED xvars
    /\ UNCHANGED orest

\* save_data() in the process left over; its captured stdout has no reader.
LeftOverSaveData ==
    /\ opc = "save"
    /\ opc' = "none"
    /\ \/ \E r \in Readings :
            meter' = save_data(meter, date_today, r[1], r[2])
       \/ UNCHANGED meter
    /\ UNCHANGED <<xpc, date_today, stdout, logins>>
    /\ UNCHANGED orest

NextOverlap ==
    \/ NextScraper \/ RunTimesOut \/ LeftOverLogin \/ LeftOverSaveData

\* ------------------------------------------------- app.py, the month list
\* datetime.MAXYEAR in the model: datetime(year=...) raises ValueError for a
\* later year.  Years count from 1 (datetime.MINYEAR).
MaxYear == 3

\* The first days of the months datetime can hold, as year and month.
FirstDays == [year : 1..MaxYear, month : 1..12]

\* dt1 <= dt2 on first days of months.
NotLater(dt1, dt2) ==
    \/ dt1.year < dt2.year
    \/ dt1.year = dt2.year /\ dt1.month <= dt2.month

\* add_one_month(dt): the first day of the next month, or nothing when the
\* constructor raises.
add_one_month(dt) ==
    LET month == dt.month + 1
        new_date == IF month > 12
                    THEN [year |-> dt.year + 1, month |-> 1]
                    ELSE [year |-> dt.year, month |-> month]
    IN  IF new_date.year > MaxYear THEN None ELSE Some(new_date)

\* available_months(1, 1) called in the first month.
MonthsAtStart ==
    /\ apc = "while"
    /\ start_month = 1
    /\ start_year = 1
    /\ start_time = [year |-> 1, month |-> 1]
    /\ current_month = [year |-> 1, month |-> 1]
    /\ dates_to_pick = <<>>

\* One pass of `while count:` -- the append, add_one_month, and the test
\* that ends the loop; the return follows the last pass at once.
WhileCount ==
    /\ apc = "while"
    /\ dates_to_pick' = Append(dates_to_pick, start_time)
    /\ LET new_date == add_one_month(start_time)
       IN  IF new_date = None
           THEN apc' = "raised" /\ UNCHANGED start_time
           ELSE /\ start_time' = new_date[1]
                /\ apc' = IF /\ new_date[1].year = current_month.year
                             /\ new_date[1].month = current_month.month + 1
                          THEN "returned"
                          ELSE "while"
    /\ UNCHANGED <<start_month, start_year, current_month>>
    /\ UNCHANGED mrest

NextMonths == WhileCount

\* ------------------------------------------------------ raspberry_check.py
MaxChecks == 4            \* calls of check_site explored

\* What a call of check_site meets: browser.get raises; the heading does not
\* appear within the wait (or reading it raises); the heading has another
\* text; the heading is 'ELECTRICITY PRODUCTION'.
SiteOutcomes == {"get_raises", "no_heading", "other_text", "online"}

\* check_site that leaves online_alert alone after "Raspberry online!".
check_site_keepalert(alert, outcome) ==
    CASE outcome = "get_raises" ->
           [sent |-> <<"Error, couldn't load rafalrolkiewicz.com!",
                       "Raspberry offline!">>,
            online_alert |-> TRUE]
      [] outcome = "no_heading" ->
           [sent |-> <<"Raspberry offline!">>, online_alert |-> TRUE]
      [] outcome = "other_text" ->
           [sent |-> <<"Raspberry offline!">>, online_alert |-> TRUE]
      [] outcome = "online" ->
           IF alert
           THEN [sent |-> <<"Raspberry online!">>, online_alert |-> alert]
           ELSE [sent |-> <<>>, online_alert |-> alert]

\* check_site() from line 132 to line 168: the messages it sends and the
\* value it leaves in online_alert.  When browser.get raises, `wait` stays
\* unbound: both later try blocks raise NameError, and the except of the
\* last one reports the site offline.
check_site(alert, outcome) ==
    CASE outcome = "get_raises" ->
           [sent |-> <<"Error, couldn't load rafalrolkiewicz.com!",
                       "Raspberry offline!">>,
            online_alert |-> TRUE]
      [] outcome = "no_heading" ->
           [sent |-> <<"Raspberry offline!">>, online_alert |-> TRUE]
      [] outcome = "other_text" ->
           [sent |-> <<"Raspberry offline!">>, online_alert |-> TRUE]
      [] outcome = "online" ->
           IF alert
           THEN [sent |-> <<"Raspberry online!">>, online_alert |-> FALSE]
           ELSE [sent |-> <<>>, online_alert |-> alert]

\* raspberry_check.py loaded: online_alert = True, no check made yet.
RaspberryAtStart ==
    /\ rpc = "loop"
    /\ online_alert = TRUE
    /\ checks = <<>>

\* One call of check_site, by schedule.run_all() at import or by
\* run_pending() every 5 minutes.  The reconnect to the wifi changes
\* nothing the call looks at.  The last statement, browser.get of
\* google.com, is outside every try: when it raises, the exception leaves
\* check_site and the loop.
CheckSite ==
    /\ rpc = "loop"
    /\ Len(checks) < MaxChecks
    /\ \E outcome \in SiteOutcomes, google \in {"ok", "raises"} :
         LET c == check_site(online_alert, outcome)
         IN  /\ checks' = Append(checks, [found |-> outcome, sent |-> c.sent])
             /\ online_alert' = c.online_alert
             /\ rpc' = IF google = "ok" THEN "loop" ELSE "crashed"
    /\ UNCHANGED rrest

NextRaspberry == CheckSite

\* ------------------------------------------------------- specifications
\* Each program is explored with the other one at its start.
SchedulerAtStart == InitScheduler /\ clock = 36000

NextCollector ==
    \/ SolaxFetch \/ TuyaFetch \/ WeatherFetch
    \/ SolaxStore \/ TuyaStore \/ WeatherStore \/ JobReturn
    \/ RunPending \/ Sleep

CollectorInit ==
    /\ InitCollector /\ SchedulerAtStart /\ SupervisorAtStart
    /\ ScraperAtStart /\ MonthsAtStart /\ RaspberryAtStart

CollectorSpec == CollectorInit /\ [][NextCollector]_vars

\* The loop is the only thread of datafetcher.py: a step that can be taken
\* is taken.  The fair behaviours are explored from a first start of the
\* program (empty tables).
InitCollectorFirstStart ==
    /\ InitCollector
    /\ now = 13
    /\ TuyaData = <<>>

CollectorFairInit ==
    /\ InitCollectorFirstStart /\ SchedulerAtStart /\ SupervisorAtStart
    /\ ScraperAtStart /\ MonthsAtStart /\ RaspberryAtStart

CollectorFairSpec ==
    CollectorFairInit /\ [][NextCollector]_vars /\ WF_vars(NextCollector)


SchedulerInit ==
    /\ InitScheduler /\ InitCollectorFirstStart /\ SupervisorAtStart
    /\ ScraperAtStart /\ MonthsAtStart /\ RaspberryAtStart

SchedulerSpec == SchedulerInit /\ [][NextScheduler]_vars

\* The jobs of house_energy.py as functions of the process table: every
\* table the host can show is reached, and each job is called on it.
SupervisorJobsInit ==
    /\ hpc = "idle"
    /\ SupervisorFresh
    /\ SchedulerAtStart
    /\ InitCollectorFirstStart
    /\ ScraperAtStart /\ MonthsAtStart /\ RaspberryAtStart

SupervisorJobsSpec == SupervisorJobsInit /\ [][NextSupervisorJobs]_vars

\* The jobs from an empty table, with no process started from outside.
SupervisedInit ==
    /\ hpc = "idle"
    /\ SupervisorFresh
    /\ SchedulerAtStart
    /\ InitCollectorFirstStart
    /\ ScraperAtStart /\ MonthsAtStart /\ RaspberryAtStart

SupervisedSpec == SupervisedInit /\ [][NextSupervised]_vars

\* house_energy.py run as a program; the interpreter does not pause between
\* module-level statements.
HouseEnergyInit ==
    /\ SupervisorAtStart /\ SchedulerAtStart /\ InitCollectorFirstStart
    /\ ScraperAtStart /\ MonthsAtStart /\ RaspberryAtStart

HouseEnergySpec ==
    HouseEnergyInit /\ [][NextHouseEnergy]_vars /\ WF_vars(ImportStep)

\* scraper.py, run again and again over the days.
ScraperInit ==
    /\ xpc = "idle"
    /\ opc = "none"
    /\ meter \in InitialMeter
    /\ date_today \in {0, 1}
    /\ stdout = <<>>
    /\ logins = 0
    /\ SupervisorAtStart /\ SchedulerAtStart /\ InitCollectorFirstStart
    /\ MonthsAtStart /\ RaspberryAtStart

ScraperSpec == ScraperInit /\ [][NextScraper]_vars

\* scraper.py run by the scheduler, with its ceiling on a run.
OverlapInit ==
    /\ xpc = "idle"
    /\ opc = "none"
    /\ meter \in InitialMeter
    /\ date_today \in {0, 1}
    /\ stdout = <<>>
    /\ logins = 0
    /\ SupervisorAtStart /\ SchedulerAtStart /\ InitCollectorFirstStart
    /\ MonthsAtStart /\ RaspberryAtStart

OverlapSpec == OverlapInit /\ [][NextOverlap]_vars

\* raspberry_check.py from its load.
RaspberryInit ==
    /\ RaspberryAtStart
    /\ SupervisorAtStart /\ SchedulerAtStart /\ InitCollectorFirstStart
    /\ ScraperAtStart /\ MonthsAtStart

RaspberrySpec == RaspberryInit /\ [][NextRaspberry]_vars

\* available_months called with a start month not later than the current
\* one, in any month.
MonthsInit ==
    /\ apc = "while"
    /\ dates_to_pick = <<>>
    /\ current_month \in FirstDays
    /\ start_time \in {dt \in FirstDays : NotLater(dt, current_month)}
    /\ start_month = start_time.month
    /\ start_year = start_time.year
    /\ SupervisorAtStart /\ SchedulerAtStart /\ InitCollectorFirstStart
    /\ ScraperAtStart /\ RaspberryAtStart

MonthsSpec == MonthsInit /\ [][NextMonths]_vars

\* ======================================================= collector claims
Table(s) ==
    CASE s = "solax" -> SolaxData [] s = "tuya" -> TuyaData
      [] s = "weather" -> WeatherData

\* The source failed in its fetch step (the client, or for Tuya the baseline
\* query) or in its store step (commit raised).
Failing(s) ==
    \/ fetched[s] \in {"status", "raise", "fail"}
    \/ s = "tuya" /\ baseline_q = "fail"
    \/ commit[s] = "fail"

FetchFailed(s) == fetched[s] \in {"status", "raise", "fail"}

Succeeded(s) ==
    /\ fetched[s] = "ok"
    /\ s = "tuya" => baseline_q = "ok"
    /\ commit[s] = "ok"

\* A row captured in the current cycle is in the source's table.
Persisted(s) == \E i \in DOMAIN Table(s) : Table(s)[i].date = started

CycleEnded == pc \in {"returned", "crashed"}

Notifications(s) == Cardinality({i \in DOMAIN sent : sent[i][1] = s})

Max(a, b) == IF a >= b THEN a ELSE b

\* C1: when a cycle has ended and exactly one source failed (in its fetch or
\* in its store step), the readings of the two other sources are persisted
\* in that cycle.
C1_OthersPersisted ==
    CycleEnded =>
        \A s \in Sources :
            (Failing(s) /\ \A o \in Sources \ {s} : ~Failing(o))
                => \A o \in Sources \ {s} : Persisted(o)

C1_Witness ==
    /\ pc = "returned"
    /\ commit["solax"] = "fail"
    /\ ~Failing("tuya") /\ ~Failing("weather")
    /\ Persisted("tuya") /\ Persisted("weather")
    /\ ~Persisted("solax")


\* The Tuya row committed in the current cycle, and the table the baseline
\* query saw (the rows stored before it).
TuyaJustStored == pc \in {"weather_store", "returned"} /\ commit["tuya"] = "ok"
StoredTuyaRow == TuyaData[Len(TuyaData)]
TuyaBefore == SubSeq(TuyaData, 1, Len(TuyaData) - 1)

\* The cumulative value of the earliest stored reading of the day of t.
TodaysFirst(table, t) ==
    LET cand == {i \in DOMAIN table : DayOf(table[i].date) = DayOf(t)}
    IN  IF cand = {} THEN None
        ELSE LET i == CHOOSE k \in cand :
                        \A j \in cand : table[k].date <= table[j].date
             IN  Some(table[i].forward_energy)

\* C2: the stored daily delta is max(0, current - baseline), where baseline
\* is the value the baseline query returned; it is never negative.
C2_DeltaClamped ==
    (TuyaJustStored /\ baseline_q = "ok") =>
        LET b == FirstForwardEnergy(TuyaBefore, Midnight(started))
        IN  b # None =>
              StoredTuyaRow.forward_energy_daily =
                  Some(Max(0, StoredTuyaRow.forward_energy - b[1]))

\* C3: the baseline subtracted from a new Tuya reading is the cumulative
\* value of the earliest stored reading of the current calendar day.
C3_BaselineIsTodaysFirst ==
    (TuyaJustStored /\ baseline_q = "ok") =>
        LET b == TodaysFirst(TuyaBefore, started)
        IN  b # None =>
              StoredTuyaRow.forward_energy_daily =
                  Some(StoredTuyaRow.forward_energy - b[1])

\* C4: when storage holds no reading of the current calendar day, the stored
\* daily delta is 0, whatever readings of earlier days are stored.
C4_FirstOfDayDeltaZero ==
    (TuyaJustStored /\ baseline_q = "ok") =>
        (TodaysFirst(TuyaBefore, started) = None
            => StoredTuyaRow.forward_energy_daily = Some(0))

\* C5: in a finished cycle where the fetch of one source failed and another
\* source succeeded, exactly one notification was sent for the failing
\* source and none for the succeeding one.
C5_OneNotificationPerFailure ==
    pc = "returned" =>
        \A a, b \in Sources :
            (a # b /\ FetchFailed(a) /\ Succeeded(b))
                => Notifications(a) = 1 /\ Notifications(b) = 0

\* C6: when Tuya delivers a reading and the baseline query fails, the cycle
\* does not crash, a failure is reported, and the reading is persisted with
\* a daily delta of 0.
C6_BaselineFailureDeltaZero ==
    baseline_q = "fail" =>
        /\ pc # "crashed"
        /\ Notifications("tuya") >= 1
        /\ TuyaJustStored => StoredTuyaRow.forward_energy_daily = Some(0)

\* C7: a step in which the commit of a reading fails leaves the table as it
\* was, sends a notification and goes on to the next block of the cycle; and
\* a table only ever grows by the row of the current cycle, in the step in
\* which that row's commit succeeds, so a dropped reading is never written
\* later.
NextBlock(s) ==
    CASE s = "solax" -> "tuya_store" [] s = "tuya" -> "weather_store"
      [] s = "weather" -> "returned"

Local(s) ==
    CASE s = "solax" -> solax_to_db [] s = "tuya" -> tuya_to_db
      [] s = "weather" -> weather_to_db

C7_FailedWriteDropped ==
    [][\A s \in Sources :
         /\ (commit[s] = "none" /\ commit'[s] = "fail") =>
               /\ Table(s)' = Table(s)
               /\ Len(sent') = Len(sent) + 1
               /\ sent'[Len(sent')][1] = s
               /\ pc' = NextBlock(s)
         /\ (Table(s)' # Table(s)) =>
               /\ commit[s] = "none" /\ commit'[s] = "ok"
               /\ Local(s) # None
               /\ Local(s)[1].date = started
               /\ Table(s)' = Append(Table(s), Local(s)[1])]_vars

C7_Witness ==
    /\ pc = "returned"
    /\ cycles = 1
    /\ commit["tuya"] = "fail"
    /\ commit["weather"] = "ok"
    /\ ~Persisted("tuya")
    /\ Persisted("weather")
    /\ Notifications("tuya") = 1

\* C8: no failure leaves save_all_data_to_db, and every finished cycle is
\* followed by the start of the next one (up to the last cycle explored).
C8_LoopNeverStops ==
    /\ [](pc # "crashed")
    /\ (pc = "returned" /\ cycles + 1 < MaxCycles) ~> (pc = "solax_fetch")

\* A new cycle has started after a cycle in which Solax stored nothing.
C8_Witness ==
    /\ pc = "solax_fetch"
    /\ cycles >= 1
    /\ Len(SolaxData) < cycles


\* ======================================================= scheduler claims
TimeoutReported == \E i \in DOMAIN tsent : tsent[i] = <<"Timeout occurred">>

FinishedInTime == finished_at # None /\ finished_at[1] < tl_entry + Timeout

\* C9: a call of time_limit ends by returning, never in another way; when
\* the task finished within the 600 seconds its value is the result and no
\* timeout is reported; when it did not, the worker has been terminated and
\* the timeout reported; the task is started once.
C9_TwoOutcomes ==
    /\ spc # "dead"
    /\ starts <= 1
    /\ spc = "returned" =>
         IF FinishedInTime
         THEN result # None /\ update_time = result[1] /\ ~TimeoutReported
         ELSE worker = "terminated" /\ TimeoutReported

\* C10: when time_limit returns after a timeout, neither the pool worker nor
\* a scraper.py the task started is still running.
C10_NothingLeftRunning ==
    (spc = "returned" /\ timed_out) =>
        /\ worker \notin {"running", "idle"}
        /\ child # "running"

\* What scraper.py printed in the current call, read back from the message
\* run_scraper sends with it; nothing was sent when it printed nothing.
TaskOutput ==
    IF \E i \in DOMAIN tsent : tsent[i][1] = "output"
    THEN (CHOOSE m \in {tsent[i] : i \in DOMAIN tsent} : m[1] = "output")[2]
    ELSE <<>>

\* The output carries the success marker.
Marked(o) == o # <<>> /\ o[1] = "Success,"

\* time_limit has returned after the ceiling passed with no result.
TimedOutCall == spc = "returned" /\ timed_out /\ result = None

\* time_limit has returned the value of a task that ran to its end.
FinishedCall == spc = "returned" /\ result # None /\ finished_at # None

\* C11 (as stated): after a timeout the next attempt time is one hour after
\* the time at which the timeout is handled.
C11_TimeoutHourFromNow ==
    TimedOutCall => update_time = clock + Hour

\* C11 (amended): after a timeout the next attempt time is one hour after
\* the next attempt time the call was entered with, whatever that was; the
\* time at which the timeout is handled plays no part.
C11_TimeoutHourFromPrevious ==
    TimedOutCall => update_time = tl_arg + Hour

C11_Witness ==
    /\ TimedOutCall
    /\ runs = 2
    /\ update_time = tl_arg + Hour
    /\ update_time # clock + Hour

\* C12: when the task ends by itself and its output lacks the success
\* marker, the next attempt time is one hour after the time at which
\* run_scraper classified the output, in whole seconds.
C12_NoMarkerHourFromNow ==
    (FinishedCall /\ ~Marked(TaskOutput)) =>
        update_time = finished_at[1] + Hour

C12_Witness ==
    /\ FinishedCall
    /\ TaskOutput = <<"Can't", "log", "in">>
    /\ update_time = finished_at[1] + Hour

\* The first 12:00:00 strictly later than t.
FirstNoonAfter(t) ==
    IF t % Day < Noon THEN (t \div Day) * Day + Noon
    ELSE (t \div Day + 1) * Day + Noon

\* C13 (as stated): after a success the next attempt time is the first
\* 12:00:00 later than the finishing time, today's when the task finished
\* before noon.
C13_SuccessFirstNoon ==
    (FinishedCall /\ Marked(TaskOutput)) =>
        update_time = FirstNoonAfter(finished_at[1])

\* C13 (amended): after a success the next attempt time is 12:00:00 of the
\* calendar day after the finishing day, for every time of day at which the
\* task finished, before noon included.
C13_SuccessNextDayNoon ==
    (FinishedCall /\ Marked(TaskOutput)) =>
        /\ update_time \div Day = finished_at[1] \div Day + 1
        /\ update_time % Day = Noon

C13_Witness ==
    /\ FinishedCall /\ Marked(TaskOutput)
    /\ finished_at[1] % Day < Noon
    /\ update_time = (finished_at[1] \div Day + 1) * Day + Noon

\* A message on record states the next attempt time now in force.
NextTimeNotified ==
    \E i \in DOMAIN tsent :
        /\ Len(tsent[i]) = 2
        /\ tsent[i][1] \in {"Next update time", "Next update try time"}
        /\ tsent[i][2] = update_time

\* C14: from the return of every task run (success, no marker, timeout) up
\* to the start of the next one, a notification stating the next attempt
\* time has been sent.
C14_NextTimeNotified ==
    (runs > 0 /\ spc \in {"returned", "sleep", "check"}) => NextTimeNotified

C14_Witness ==
    /\ spc = "check" /\ runs = 1 /\ IsDue(update_time, clock)
    /\ TimeoutReported
    /\ NextTimeNotified

\* C15: no outcome stops the scheduler: the loop never ends, and every call
\* of time_limit, the task raising included, returns a next attempt time
\* later than the one it was entered with.
C15_NeverFails ==
    /\ spc # "dead"
    /\ (task_raised /\ spc \in {"ready", "returned"}) => worker = "exited"
    /\ spc = "returned" => update_time > tl_arg

\* A step of the loop's test: one iteration of while True.
Tick == spc = "check" /\ spc' # "check"

\* C16 (as stated): a tick starts the task exactly when now >= the next
\* attempt time, and leaves the next attempt time alone.
C16_RunsIffNotBefore ==
    [][Tick => /\ (spc' = "get") <=> (clock >= update_time)
               /\ update_time' = update_time]_vars

\* C16 (amended): a tick starts the task exactly when now is strictly later
\* than the next attempt time; at now equal to it the task is not started.
\* A tick that does not start the task leaves the next attempt time alone.
C16_RunsIffLater ==
    [][Tick => /\ (spc' = "get") <=> (clock > update_time)
               /\ update_time' = update_time]_vars

C16_Witness ==
    /\ spc = "sleep" /\ runs = 1
    /\ clock = update_time

\* ====================================================== supervisor claims
\* Pids of the processes the job in progress started.
SpawnedPids == {spawn_calls[i].pid : i \in DOMAIN spawn_calls}

\* Live Python processes whose script argument (the word after the
\* interpreter) is the script.
ScriptRunners(script) ==
    {p \in LivePids(procs) : /\ Len(procs[p]) >= 2
                             /\ procs[p][1] = "python"
                             /\ procs[p][2] = script}

\* The script was running when the job in progress took its snapshot.
RunningBefore(script) == ScriptRunners(script) \ SpawnedPids # {}

SpawnsOf(script) ==
    Cardinality({i \in DOMAIN spawn_calls : spawn_calls[i].script = script})

\* The for loop of check_and_run_processes is over and the table is the one
\* it took its snapshot of, plus what it started.
CheckedStill == job = "check" /\ hpc \in {"ngrok", "done"} /\ ~changed

\* C17: in one tick exactly one spawn is issued for each required script
\* that was absent from the snapshot and none for one that was present;
\* nothing else is spawned.
C17_OneSpawnPerAbsent ==
    CheckedStill =>
        /\ \A s \in Required : SpawnsOf(s) = IF RunningBefore(s) THEN 0 ELSE 1
        /\ \A i \in DOMAIN spawn_calls : spawn_calls[i].script \in Required

C17_Witness ==
    /\ CheckedStill
    /\ Cardinality({s \in Required : RunningBefore(s)}) = 1
    /\ Len(spawn_calls) = 2
    /\ SpawnsOf("datafetcher.py") = 1 /\ SpawnsOf("scraping_scheduler.py") = 1

NgrokLive == \E p \in LivePids(procs) : procs[p][1] = "ngrok"

NgrokReported ==
    \E i \in DOMAIN reports : reports[i][1] = "Error, Ngrok isn't running"

\* C18: the ngrok check of a tick reports the error exactly when no ngrok
\* process is live, and starts nothing; no spawn of a tick is one of ngrok.
C18_NgrokReportedNotStarted ==
    [][/\ (hpc = "ngrok" /\ hpc' = "done") =>
              /\ NgrokReported' <=> ~NgrokLive
              /\ procs' = procs
              /\ spawn_calls' = spawn_calls
       /\ hpc \in {"spawning", "ngrok"} => ~NgrokReported
       /\ \A i \in DOMAIN spawn_calls' : spawn_calls'[i].script # "ngrok"
       /\ \A p \in Pids :
              (spawn_calls' # spawn_calls /\ procs'[p] # procs[p])
                  => procs'[p][1] # "ngrok"]_vars

C18_Witness ==
    /\ job = "check" /\ hpc = "done" /\ ~changed
    /\ ~NgrokLive /\ NgrokReported
    /\ spawn_calls # <<>>
    /\ LivePids(procs) # {}

\* Live processes whose argument list includes the token.
TokenHolders(name) ==
    {p \in LivePids(procs) : \E i \in DOMAIN procs[p] : procs[p][i] = name}

\* stop_process is over and the table is the one it scanned.
StoppedStill == job = "stop" /\ hpc = "done" /\ ~changed

Live(script) == \E p \in LivePids(procs) : procs[p] = <<"python", script>>

Launched(script) ==
    \E i \in DOMAIN spawn_calls : spawn_calls[i].script = script

\* C20: a required script that is not live is launched again by the
\* supervisor at its next tick, however often that happened before, so
\* that a stopped dashboard comes back.
C20_RelaunchedWhenDown ==
    \A s \in Required : (~Live(s)) ~> (Live(s) \/ Launched(s))

\* C21: registering and running the connectivity check never stops the
\* supervisor: the program does not end at its module-level statements, and
\* the check is registered as a job of its own to be repeated.
C21_WifiTaskKeepsLoop ==
    /\ hpc # "crashed"
    /\ hpc \notin {"l177", "l178", "l178_do"} => "check_wifi_connection" \in jobs

\* C23: when the clock reaches 00:05 the supervisor runs
\* stop_process("app.py"), and when it reaches Monday 00:00 it runs the
\* database backup.
C23_StopDailyBackupWeekly ==
    /\ (hclock = "00:05") ~> (job = "stop")
    /\ (hclock = "monday 00:00") ~> (job = "backup")

\* C24: until the first run the next attempt time is the start time, and the
\* first run starts on the first tick that finds the clock past it, a second
\* after the start, whatever the time of day.
C24_FirstRunAtStart ==
    /\ [](runs = 0 => (update_time <= clock /\ clock <= update_time + 1))
    /\ []((runs = 1 /\ spc = "get") => tl_entry <= tl_arg + 1)
    /\ [][(runs = 0 /\ Tick /\ clock > update_time) => spc' = "get"]_vars

C24_Witness ==
    /\ runs = 1 /\ spc = "get"
    /\ tl_arg = 36000
    /\ tl_entry = tl_arg + 1

\* C25: in every cycle each source client is called exactly once: the
\* cycle never ends with a source not called, whatever the other sources
\* did, and the outcome of a call is never replaced by a second call before
\* the cycle is over.
C25_EachSourceOnce ==
    /\ [](pc # "crashed")
    /\ [](pc = "returned" => \A s \in Sources : fetched[s] # "none")
    /\ [][\A s \in Sources :
             fetched'[s] # fetched[s] =>
                 (fetched[s] = "none" /\ pc' # pc) \/ fetched' = NoOutcome]_vars

C25_Witness ==
    /\ pc = "returned"
    /\ fetched["solax"] = "raise"
    /\ fetched["tuya"] = "fail"
    /\ fetched["weather"] = "ok"

\* C26: in each table the capture timestamps are non-decreasing in row
\* order.
C26_StampsNonDecreasing ==
    \A s \in Sources :
        \A i, j \in DOMAIN Table(s) :
            i < j => Table(s)[i].date <= Table(s)[j].date

C26_Witness ==
    /\ Len(TuyaData) = 3
    /\ Len(SolaxData) = 2
    /\ Len(WeatherData) = 1
    /\ SolaxData[1].date < SolaxData[2].date

\* Spawn calls of the job in progress that raised.
FailedSpawns == {i \in DOMAIN spawn_calls : spawn_calls[i].pid = 0}

StartErrorReported(script) ==
    \E i \in DOMAIN reports : reports[i] = <<"Error starting", script>>

\* C28: a launch that fails is reported and stops nothing: the job goes on
\* to the remaining required scripts, each of which is launched if it was
\* not in the snapshot, then to the ngrok check, and returns to the loop.
C28_FailedLaunchContained ==
    /\ [](hpc # "crashed")
    /\ [](\A i \in FailedSpawns : StartErrorReported(spawn_calls[i].script))
    /\ []((job = "check" /\ hpc \in {"ngrok", "done"}) =>
              \A s \in Required : s \in running_processes \/ SpawnsOf(s) = 1)
    /\ [][(job = "check" /\ hpc = "done" /\ hpc' # hpc) => hpc' = "idle"]_vars
    /\ [][(hpc = "spawning" /\ hpc' # hpc) => hpc' = "ngrok"]_vars
    /\ [][(hpc = "ngrok" /\ hpc' # hpc) =>
              (hpc' = "done" /\ (NgrokReported' <=> ~NgrokLive))]_vars

C28_Witness ==
    /\ job = "check" /\ hpc = "done"
    /\ spawn_calls[1] = [script |-> "app.py", pid |-> 0]
    /\ StartErrorReported("app.py")
    /\ Len(spawn_calls) = 3
    /\ spawn_calls[2].pid # 0
    /\ NgrokReported

\* ========================================================= scraper claims
\* The date of the latest meter row; the table is not empty.
LatestDate == meter[Len(meter)].date

\* The step of a run that asks whether the data is actual.
ActualTest == xpc = "start" /\ xpc' # xpc

\* C22: a run that finds the latest meter row dated today prints the
\* success marker and ends, without a login and with the table as it was;
\* the scheduler takes what it printed for a success and schedules the
\* next day.
C22_ActualRunIsNoOp ==
    [][(ActualTest /\ meter # <<>> /\ LatestDate = date_today) =>
           /\ xpc' = "idle"
           /\ Marked(stdout')
           /\ run_scraper(stdout', clock).time
                  = ((clock \div Day) + 1) * Day + Noon
           /\ meter' = meter
           /\ logins' = 0]_vars

C22_Witness ==
    /\ xpc = "idle"
    /\ stdout = SaidActual
    /\ Len(meter) = 3
    /\ LatestDate = date_today
    /\ logins = 0

\* C27: a step of save_data that changes the table appends exactly one row
\* and, among the rows already there, changes nothing but taken_daily and
\* given_daily of the latest one; a save that reports success has appended
\* its row.
C27_SaveTouchesDailyOnly ==
    [][/\ meter' # meter =>
            /\ xpc = "save"
            /\ Len(meter') = Len(meter) + 1
            /\ \A i \in 1..(Len(meter) - 1) : meter'[i] = meter[i]
            /\ meter'[Len(meter)].date = meter[Len(meter)].date
            /\ meter'[Len(meter)].taken = meter[Len(meter)].taken
            /\ meter'[Len(meter)].given = meter[Len(meter)].given
       /\ (xpc = "save" /\ stdout' = SaidSaved) =>
            Len(meter') = Len(meter) + 1]_vars

C27_Witness ==
    /\ xpc = "idle" /\ stdout = SaidSaved
    /\ Len(meter) = 3
    /\ meter[2].taken_daily = Some(2) /\ meter[2].taken = 10
    /\ meter[3].taken = 12 /\ meter[3].taken_daily = None

\* C29: is_data_actual is True exactly when the date of the latest meter
\* row is today's date, year included.
C29_ActualIffSameDate ==
    meter # <<>> =>
        (is_data_actual(meter, date_today) <=> LatestDate = date_today)

\* ===================================================== month list claims
\* Months since year 0 of a first day, and back.
MonthIndex(dt) == dt.year * 12 + dt.month - 1

FirstDayAt(i) == [year |-> i \div 12, month |-> (i % 12) + 1]

\* The first days from the start month through the current month.
StartThroughCurrent ==
    LET first == MonthIndex([year |-> start_year, month |-> start_month])
        last == MonthIndex(current_month)
    IN  [k \in 1..(last - first + 1) |-> FirstDayAt(first + k - 1)]

\* C30: a call of available_months with a start month not later than the
\* current month never ends in an exception, and what it returns is the
\* first day of every month from the start month through the current one,
\* in increasing order.
C30_ReturnsStartThroughCurrent ==
    /\ apc # "raised"
    /\ apc = "returned" => dates_to_pick = StartThroughCurrent

\* ================================================ concurrency of the tasks
\* scraper.py processes the scheduler started that are still running.
ScrapersAlive == (IF child = "running" THEN 1 ELSE 0) + orphans

\* C31: at most one scraper.py started by the scheduler is alive at any
\* moment; a run never starts while the process of an earlier run, timed
\* out or not, is still running.
C31_OneScraperAlive == ScrapersAlive <= 1

\* C32: where only the supervisor launches processes, and they exit at any
\* time, at most one instance of each required script is live: no script is
\* launched while an instance launched earlier is still live.
C32_OneInstancePerScript ==
    \A script \in Required : Cardinality(ScriptRunners(script)) <= 1

\* A tick has relaunched one script that had exited, next to the two others
\* still live from an earlier tick.
C32_Witness ==
    /\ job = "check" /\ hpc = "done"
    /\ Len(spawn_calls) = 1 /\ spawn_calls[1].pid # 0
    /\ \A script \in Required : Cardinality(ScriptRunners(script)) = 1

\* C33: every call of stop_process reports exactly one of "has been
\* stopped" and "is not running", also when the target exits between the
\* first scan and the second.
C33_OneOutcomeReported ==
    (job = "stop" /\ hpc = "done") =>
        /\ Len(reports) = 1
        /\ reports[1][1] \in {"has been stopped.", "is not running."}

\* C34: the process stop_process(name) signals is a Python process whose
\* script argument is name, whatever the table holds and in whatever order;
\* no process of another command with name among its arguments is signalled.
C34_SignalsOnlyTheScript ==
    [][(hpc = "killing" /\ hpc' = "done") =>
           \A i \in DOMAIN signals' :
               signals'[i].pid \in ScriptRunners(target)]_vars

\* C35: after any sequence of runs of the scrape task the scheduler
\* starts, runs that overlap in time included, the meter table holds at most
\* one row per calendar date.
C35_OneRowPerDate ==
    \A i, j \in DOMAIN meter : i # j => meter[i].date # meter[j].date

\* ================================================== rows of a cycle
\* Rows of the source's table captured in the current cycle.
RowsOfCycle(s) == {i \in DOMAIN Table(s) : Table(s)[i].date = started}

\* C36: a table changes only by one row appended, captured in the current
\* cycle, for a source whose fetch did not fail in this cycle and that has
\* no row of this cycle yet; so a cycle stores at most one row per source
\* and a reading of an earlier cycle is not stored again.
C36_OneFreshRowPerSource ==
    [][\A s \in Sources :
         Table(s)' # Table(s) =>
             /\ ~FetchFailed(s)
             /\ RowsOfCycle(s) = {}
             /\ Len(Table(s)') = Len(Table(s)) + 1
             /\ SubSeq(Table(s)', 1, Len(Table(s))) = Table(s)
             /\ Table(s)'[Len(Table(s)')].date = started]_vars

\* The second cycle has ended: Solax delivered in the first cycle and failed
\* in the second, and its table holds the row of the first cycle alone.
C36_Witness ==
    /\ pc = "returned" /\ cycles = 1
    /\ FetchFailed("solax")
    /\ Len(SolaxData) = 1 /\ SolaxData[1].date # started
    /\ Persisted("weather") /\ Len(WeatherData) = 2

\* ============================================= the next attempt time
\* C37: whenever time_limit returns, after a success, an output without the
\* marker or a timeout, the next attempt time is later than the clock, so
\* the tick that follows, a second later, does not find the task due.
C37_NextAttemptLater ==
    spc = "returned" =>
        /\ update_time > clock
        /\ ~IsDue(update_time, clock + 1)

\* The second call in a row has timed out; the next attempt is less than an
\* hour away.
C37_Witness ==
    /\ TimedOutCall /\ runs = 2
    /\ update_time > clock
    /\ update_time < clock + Hour

\* ================================================ raspberry_check claims
\* The i-th check sent the message.
SentAt(i, text) ==
    \E k \in DOMAIN checks[i].sent : checks[i].sent[k] = text

FoundOffline(i) == checks[i].found # "online"

\* C38: "Raspberry online!" is sent only by a check that finds the site
\* online, and between two checks that send it some check has found the
\* site offline; every check that finds the site offline sends
\* "Raspberry offline!".
C38_OnlineOncePerRun ==
    \A i \in DOMAIN checks :
        /\ FoundOffline(i) => SentAt(i, "Raspberry offline!")
        /\ SentAt(i, "Raspberry online!") =>
              /\ ~FoundOffline(i)
              /\ \A j \in 1..(i - 1) :
                    SentAt(j, "Raspberry online!") =>
                        \E k \in (j + 1)..(i - 1) : FoundOffline(k)

\* Online is announced, two more online checks say nothing, an offline
\* check is announced.
C38_Witness ==
    /\ Len(checks) = 4
    /\ checks[1].sent = <<"Raspberry online!">>
    /\ checks[2].found = "online" /\ checks[2].sent = <<>>
    /\ checks[3].found = "online" /\ checks[3].sent = <<>>
    /\ checks[4].found = "no_heading"
    /\ online_alert = TRUE

=============================================================================
